---- MODULE Spec2Model ----
(***************************************************************************)
(* Model of main.py, the scraper of the 2017 parliamentary election        *)
(* results: clean_number, scrape_municipalities_list,                      *)
(* scrape_one_place_details, export_to_csv and the run of main().          *)
(*                                                                         *)
(* A text (Python str) is a sequence of chunks; a chunk is one character   *)
(* ("1", " ", "-") or an atomic word ("X", "valid") whose inner letters no *)
(* operation of the program looks at.  Python's None is NoneText where a   *)
(* str is expected ("<None>" is no chunk, so NoneText is no text) and the  *)
(* record None where an object (a document, a dict) is expected.           *)
(***************************************************************************)
EXTENDS Integers, Sequences, FiniteSets, TLC

VARIABLES
    pc,              \* position of main(): Idle, ListingFetched, ... (see Next)
    main_page_soup,  \* main.py:372, the listing document or None
    municipalities,  \* main.py:379, the list of municipality records
    idx,             \* main.py:388, 1-based position of the for loop
    trace,           \* history: the fetches and the export call, in order
    out,             \* history: the messages main() and its callees printed
    file,            \* the output file: None, or the table [header, rows]
    pages,           \* history: per municipality, the detail page fetched or None
    arg,             \* argument of the function under test (function specifications)
    ret,             \* its return value
    fpc              \* "ready" before the call, "returned" after it

vars == <<pc, main_page_soup, municipalities, idx, trace, out, file, pages,
          arg, ret, fpc>>

mainvars == <<pc, main_page_soup, municipalities, idx, trace, out, file, pages>>

fnvars == <<arg, ret, fpc>>

-----------------------------------------------------------------------------
(* Bounds of the model *)

MaxLen == 3          \* longest text given to clean_number
MaxRows == 3         \* most rows of a listing table
MaxPartyRows == 2    \* most data rows of one party table
MaxContainers == 2   \* most div.t2_470 containers of one detail page
MaxRecords == 2      \* most records given to export_to_csv on its own

-----------------------------------------------------------------------------
(* Constants of main.py *)

NON_BREAKING_SPACE == "NBSP"
REGULAR_SPACE == " "
INVALID_PARTY_NAME == <<"-">>
HEADER_ROW_INDEX == 1
MIN_CELLS_PER_ROW == 3
PARTY_NUMBER_CELL_INDEX == 0
PARTY_NAME_CELL_INDEX == 1
PARTY_VOTES_CELL_INDEX == 2
CODE_COLUMN == <<"code">>
LOCATION_COLUMN == <<"location">>
REGISTERED_COLUMN == <<"registered">>
ENVELOPES_COLUMN == <<"envelopes">>
VALID_COLUMN == <<"valid">>
DEFAULT_VOTES == 0
DEFAULT_VALUE == <<"N/A">>

NoneText == <<"<None>">>

None == [none |-> TRUE]

-----------------------------------------------------------------------------
(* Python str and int *)

Digits == {"0", "1", "2", "3", "4", "5", "6", "7", "8", "9"}

DigitValue(c) ==
    CASE c = "0" -> 0 [] c = "1" -> 1 [] c = "2" -> 2 [] c = "3" -> 3
      [] c = "4" -> 4 [] c = "5" -> 5 [] c = "6" -> 6 [] c = "7" -> 7
      [] c = "8" -> 8 [] c = "9" -> 9

\* str.isspace() on the chunks of the model
IsSpace(c) == c \in {REGULAR_SPACE, NON_BREAKING_SPACE}

\* text.replace(ch, '')
RECURSIVE Replace(_, _)
Replace(text, ch) ==
    IF text = <<>> THEN <<>>
    ELSE IF Head(text) = ch THEN Replace(Tail(text), ch)
         ELSE <<Head(text)>> \o Replace(Tail(text), ch)

RECURSIVE LStrip(_)
LStrip(text) ==
    IF text # <<>> /\ IsSpace(Head(text)) THEN LStrip(Tail(text)) ELSE text

RECURSIVE RStrip(_)
RStrip(text) ==
    IF text # <<>> /\ IsSpace(text[Len(text)])
    THEN RStrip(SubSeq(text, 1, Len(text) - 1)) ELSE text

\* str.strip(), what get_text(strip=True) applies to the text of a cell
Strip(text) == RStrip(LStrip(text))

AllDigits(text) == \A k \in 1..Len(text) : text[k] \in Digits

RECURSIVE DigitsValue(_)
DigitsValue(text) ==
    IF text = <<>> THEN 0
    ELSE 10 * DigitsValue(SubSeq(text, 1, Len(text) - 1))
         + DigitValue(text[Len(text)])

\* int(text) raises ValueError unless, surrounding whitespace stripped, the text
\* is an optional sign followed by at least one digit
IntParses(text) ==
    LET s == Strip(text)
        body == IF s # <<>> /\ Head(s) \in {"-", "+"} THEN Tail(s) ELSE s
    IN body # <<>> /\ AllDigits(body)

\* int(text) when it does not raise
IntOf(text) ==
    LET s == Strip(text)
    IN IF Head(s) = "-" THEN 0 - DigitsValue(Tail(s))
       ELSE IF Head(s) = "+" THEN DigitsValue(Tail(s))
       ELSE DigitsValue(s)

\* Python's order of str: by code point, chunk by chunk, a prefix first
ChunkCode(c) ==
    CASE c = NON_BREAKING_SPACE -> 160
      [] c = REGULAR_SPACE -> 32
      [] c = "+" -> 43
      [] c = "-" -> 45
      [] c \in Digits -> 48 + DigitValue(c)
      [] OTHER -> 97

RECURSIVE TextLess(_, _)
TextLess(a, b) ==
    IF b = <<>> THEN FALSE
    ELSE IF a = <<>> THEN TRUE
    ELSE IF ChunkCode(Head(a)) # ChunkCode(Head(b))
         THEN ChunkCode(Head(a)) < ChunkCode(Head(b))
         ELSE TextLess(Tail(a), Tail(b))

\* all texts of at most n chunks over an alphabet
TextsUpTo(alphabet, n) == UNION {[1..k -> alphabet] : k \in 0..n}

-----------------------------------------------------------------------------
(* clean_number, main.py:95-125 *)

\* faulty variant: the non-breaking spaces are left in the text
clean_number_KeepsNbsp(text) ==
    IF text = NoneText \/ text = <<>> THEN DEFAULT_VOTES
    ELSE LET cleaned_text == Replace(text, REGULAR_SPACE)
         IN IF IntParses(cleaned_text) THEN IntOf(cleaned_text)
            ELSE DEFAULT_VOTES

clean_number(text) ==
    IF text = NoneText \/ text = <<>> THEN DEFAULT_VOTES
    ELSE LET cleaned_text ==
                 Replace(Replace(text, NON_BREAKING_SPACE), REGULAR_SPACE)
         IN IF IntParses(cleaned_text) THEN IntOf(cleaned_text)
            ELSE DEFAULT_VOTES

-----------------------------------------------------------------------------
(* Documents.  A parsed page is modelled by what the selectors of main.py  *)
(* find in it.  An element that select_one does not find is Absent.        *)

Absent == [present |-> FALSE]

\* <td class="cislo"><a href=...>text</a></td>; href is NoneText without the attribute
LinkElement(href, text) == [present |-> TRUE, href |-> href, text |-> text]

\* an element of which only the text is read
TextElement(text) == [present |-> TRUE, text |-> text]

\* one <tr> of table.table
ListingRow(link, name) == [link |-> link, name |-> name]

\* a listing page: the rows select(MAIN_TABLE_SELECTOR) returns, in document order
ListingDoc(rows) == [rows |-> rows]

\* a URL is a text whose last chunk is the last path segment with its query
BaseUrl == <<"https://volby.cz/pls/ps2017nss/", "ps32?xnumnuts=7103">>

Schemes == {"https://other.example/"}

\* urllib.parse.urljoin(base_url, href) for the two shapes of href the model
\* has: one with a scheme of its own, which is kept, and a relative one,
\* which replaces the last path segment of the base
urljoin(base_url, href) ==
    IF href # <<>> /\ Head(href) \in Schemes THEN href
    ELSE SubSeq(base_url, 1, Len(base_url) - 1) \o href

-----------------------------------------------------------------------------
(* scrape_municipalities_list, main.py:128-179 *)

\* main.py:159, if link_element and name_element
BothElementsExist(link_element, name_element) ==
    link_element.present /\ name_element.present

\* faulty variant: the name is not checked
AllDataPresent_NoName(href, code, name) ==
    /\ href # NoneText /\ href # <<>>
    /\ code # <<>>

\* main.py:166, if href and code and name
AllDataPresent(href, code, name) ==
    /\ href # NoneText /\ href # <<>>
    /\ code # <<>>
    /\ name # <<>>

\* main.py:171-175
MunicipalityData(code, name, full_link) ==
    [code |-> code, location |-> name, link |-> full_link]

\* main.py:152-176: the rows in document order, each appended at the end
RECURSIVE ScrapeRows(_, _, _)
ScrapeRows(table_rows, base_url, acc) ==
    IF table_rows = <<>> THEN acc
    ELSE LET row == Head(table_rows)
             link_element == row.link
             name_element == row.name
         IN IF BothElementsExist(link_element, name_element)
            THEN LET href == link_element.href
                     code == Strip(link_element.text)
                     name == Strip(name_element.text)
                 IN IF AllDataPresent(href, code, name)
                    THEN ScrapeRows(Tail(table_rows), base_url,
                             Append(acc, MunicipalityData(code, name,
                                             urljoin(base_url, href))))
                    ELSE ScrapeRows(Tail(table_rows), base_url, acc)
            ELSE ScrapeRows(Tail(table_rows), base_url, acc)

scrape_municipalities_list(soup, base_url) ==
    ScrapeRows(soup.rows, base_url, <<>>)

-----------------------------------------------------------------------------
(* scrape_one_place_details, main.py:182-251 *)

\* a div.t2_470: find('table') is None, or the table's find_all('tr'), each
\* row being the texts of its find_all('td')
NoTable == [has_table |-> FALSE, rows |-> <<>>]
TableContainer(rows) == [has_table |-> TRUE, rows |-> rows]

\* a municipality's detail page
DetailDoc(registered, envelopes, valid, containers) ==
    [registered |-> registered, envelopes |-> envelopes, valid |-> valid,
     containers |-> containers]

\* main.py:214-216, clean_number(element.get_text()) if element else DEFAULT_VOTES
SummaryValue(element) ==
    IF element.present THEN clean_number(element.text) ELSE DEFAULT_VOTES

\* faulty variant: an empty name is not checked
IsValidPartyName_NoEmpty(party_name) == party_name # INVALID_PARTY_NAME

\* main.py:245, if party_name and party_name != INVALID_PARTY_NAME
IsValidPartyName(party_name) ==
    party_name # <<>> /\ party_name # INVALID_PARTY_NAME

\* main.py:246-249, parties[party_number] = {...}: a later entry replaces an
\* earlier one of the same party number
SetParty(parties, party_number, party_name, votes) ==
    [k \in DOMAIN parties \cup {party_number} |->
        IF k = party_number THEN [nazev |-> party_name, hlasy |-> votes]
        ELSE parties[k]]

\* main.py:234-249, one row of a party table
ScrapePartyRow(parties, cells) ==
    IF Len(cells) >= MIN_CELLS_PER_ROW
    THEN LET party_number == Strip(cells[PARTY_NUMBER_CELL_INDEX + 1])
             party_name == Strip(cells[PARTY_NAME_CELL_INDEX + 1])
             votes == clean_number(Strip(cells[PARTY_VOTES_CELL_INDEX + 1]))
         IN IF IsValidPartyName(party_name)
            THEN SetParty(parties, party_number, party_name, votes)
            ELSE parties
    ELSE parties

\* main.py:233, for row in table_rows
RECURSIVE ScrapePartyRows(_, _)
ScrapePartyRows(parties, table_rows) ==
    IF table_rows = <<>> THEN parties
    ELSE ScrapePartyRows(ScrapePartyRow(parties, Head(table_rows)),
                         Tail(table_rows))

\* main.py:231, table.find_all('tr')[HEADER_ROW_INDEX:]
SkipHeader(rows) == SubSeq(rows, HEADER_ROW_INDEX + 1, Len(rows))

\* main.py:224-249, for table_container in result_tables
RECURSIVE ScrapeContainers(_, _)
ScrapeContainers(parties, result_tables) ==
    IF result_tables = <<>> THEN parties
    ELSE LET table_container == Head(result_tables)
         IN IF ~table_container.has_table
            THEN ScrapeContainers(parties, Tail(result_tables))
            ELSE ScrapeContainers(
                     ScrapePartyRows(parties, SkipHeader(table_container.rows)),
                     Tail(result_tables))

\* the empty dict
EmptyDict == [k \in {} |-> 0]

scrape_one_place_details(detail_soup) ==
    IF detail_soup = None THEN None
    ELSE [registered |-> SummaryValue(detail_soup.registered),
          envelopes |-> SummaryValue(detail_soup.envelopes),
          valid |-> SummaryValue(detail_soup.valid),
          parties |-> ScrapeContainers(EmptyDict, detail_soup.containers)]

-----------------------------------------------------------------------------
(* export_to_csv, main.py:254-333 *)

\* A cell of the table is a Python int or a Python str
PyInt(n) == [int |-> n]
PyStr(text) == [str |-> text]

\* main.py:275 and 311-312, 'parties' in municipality and municipality['parties']
HasParties(municipality) ==
    "parties" \in DOMAIN municipality /\ municipality.parties # EmptyDict

\* main.py:276-278, a party number keeps the name it was first seen with
AddNewParties(all_parties, parties) ==
    [k \in DOMAIN all_parties \cup DOMAIN parties |->
        IF k \in DOMAIN all_parties THEN all_parties[k] ELSE parties[k].nazev]

\* main.py:272-278, Step 1
RECURSIVE CollectParties(_, _)
CollectParties(all_parties, municipalities_data) ==
    IF municipalities_data = <<>> THEN all_parties
    ELSE LET municipality == Head(municipalities_data)
         IN CollectParties(
                IF HasParties(municipality)
                THEN AddNewParties(all_parties, municipality.parties)
                ELSE all_parties,
                Tail(municipalities_data))

\* main.py:284, int(party_number_text) raises ValueError for one of the keys
SortRaises(all_parties) == \E pn \in DOMAIN all_parties : ~IntParses(pn)

\* faulty variant: the party numbers are ordered as texts
KeyBefore_AsText(a, b) == TextLess(a, b)

\* main.py:287, the order of the tuples (int(number), (number, name)): by the
\* integer, then by the text of the number
KeyBefore(a, b) ==
    \/ IntOf(a) < IntOf(b)
    \/ IntOf(a) = IntOf(b) /\ TextLess(a, b)

\* main.py:281-291, Step 2: the (number, name) pairs in the order of list.sort()
RECURSIVE SortParties(_, _)
SortParties(all_parties, left) ==
    IF left = {} THEN <<>>
    ELSE LET first == CHOOSE a \in left : \A b \in left \ {a} : KeyBefore(a, b)
         IN <<[number |-> first, name |-> all_parties[first]]>>
            \o SortParties(all_parties, left \ {first})

SortedParties(all_parties) == SortParties(all_parties, DOMAIN all_parties)

\* main.py:295-296
base_columns == <<CODE_COLUMN, LOCATION_COLUMN, REGISTERED_COLUMN,
                  ENVELOPES_COLUMN, VALID_COLUMN>>

\* the key of the record that a base column names
ColumnKey(column) == column[1]

\* main.py:304, municipality.get(column, DEFAULT_VALUE): code and location
\* are str, the three counts int
BaseValue(municipality, column) ==
    IF ColumnKey(column) \notin DOMAIN municipality THEN PyStr(DEFAULT_VALUE)
    ELSE IF column \in {CODE_COLUMN, LOCATION_COLUMN}
         THEN PyStr(municipality[ColumnKey(column)])
         ELSE PyInt(municipality[ColumnKey(column)])

\* main.py:308-314, the votes of a municipality for a party number
VotesFor(municipality, party_number) ==
    IF HasParties(municipality) /\ party_number \in DOMAIN municipality.parties
    THEN municipality.parties[party_number].hlasy
    ELSE DEFAULT_VOTES

\* csv_row[key] = value
SetItem(csv_row, key, value) ==
    [k \in DOMAIN csv_row \cup {key} |-> IF k = key THEN value ELSE csv_row[k]]

\* main.py:303-304
RECURSIVE AddBaseColumns(_, _, _)
AddBaseColumns(csv_row, municipality, columns) ==
    IF columns = <<>> THEN csv_row
    ELSE AddBaseColumns(
             SetItem(csv_row, Head(columns), BaseValue(municipality, Head(columns))),
             municipality, Tail(columns))

\* main.py:307-316, csv_row[party_name] = votes, keyed by the NAME of the party
RECURSIVE AddPartyColumns(_, _, _)
AddPartyColumns(csv_row, municipality, parties) ==
    IF parties = <<>> THEN csv_row
    ELSE AddPartyColumns(
             SetItem(csv_row, Head(parties).name,
                     PyInt(VotesFor(municipality, Head(parties).number))),
             municipality, Tail(parties))

\* main.py:298-318, one csv_row
CsvRow(municipality, sorted_parties) ==
    AddPartyColumns(AddBaseColumns(EmptyDict, municipality, base_columns),
                    municipality, sorted_parties)

\* main.py:324-325
FinalColumnOrder(sorted_parties) ==
    base_columns \o [k \in 1..Len(sorted_parties) |-> sorted_parties[k].name]

\* main.py:321-326, pd.DataFrame(csv_data)[final_column_order]: every row by
\* the labels of final_column_order, a label listed twice giving its column twice
DataFrame(municipalities_data, sorted_parties) ==
    LET order == FinalColumnOrder(sorted_parties)
    IN [header |-> order,
        rows |-> [r \in 1..Len(municipalities_data) |->
                    [k \in 1..Len(order) |->
                        CsvRow(municipalities_data[r], sorted_parties)[order[k]]]]]

\* The run of export_to_csv.  can_write is whether to_csv can write the file.
\* raised: "" on a normal return, else the exception that leaves the function
\* (ValueError of int() at main.py:284; KeyError of main.py:326, when the
\* frame of an empty list has none of the columns).  written: the table in the
\* file, or None.  party_numbers: the party number behind each party column.
export_to_csv(municipalities_data, can_write) ==
    LET all_parties == CollectParties(EmptyDict, municipalities_data)
    IN IF SortRaises(all_parties)
       THEN [raised |-> "ValueError", written |-> None, party_numbers |-> <<>>,
             printed |-> <<"Exportuji data do souboru">>]
       ELSE IF municipalities_data = <<>>
       THEN [raised |-> "KeyError", written |-> None, party_numbers |-> <<>>,
             printed |-> <<"Exportuji data do souboru">>]
       ELSE LET sorted_parties == SortedParties(all_parties)
                numbers == [k \in 1..Len(sorted_parties) |-> sorted_parties[k].number]
            IN IF can_write
               THEN [raised |-> "",
                     written |-> DataFrame(municipalities_data, sorted_parties),
                     party_numbers |-> numbers,
                     printed |-> <<"Exportuji data do souboru",
                                   "Data byla uspesne ulozena">>]
               ELSE [raised |-> "", written |-> None, party_numbers |-> numbers,
                     printed |-> <<"Exportuji data do souboru",
                                   "CHYBA: Nepodarilo se zapsat do souboru">>]

-----------------------------------------------------------------------------
(* The state main() starts in; the function specifications leave it alone *)

MainIdle ==
    /\ pc = "Idle"
    /\ main_page_soup = None
    /\ municipalities = <<>>
    /\ idx = 0
    /\ trace = <<>>
    /\ out = <<>>
    /\ file = None
    /\ pages = <<>>

-----------------------------------------------------------------------------
(* get_soup_from_url, main.py:67-92, and main(), main.py:370-403 *)

\* What requests.get and raise_for_status meet: the page, or a RequestException
Response(page) == [ok |-> TRUE, page |-> page]
RequestException == [ok |-> FALSE]

\* main.py:81-92: the parsed page, or None with a message printed
get_soup_from_url(response) == IF response.ok THEN response.page ELSE None

SoupPrinted(response) ==
    IF response.ok THEN <<>> ELSE <<"CHYBA: Nepodarilo se stahnout stranku">>

\* main.py:373, if not main_page_soup
ListingFetchFailed(soup) == soup = None

\* faulty variant: an empty list is not noticed
NoMunicipalities_Never(found) == FALSE

\* main.py:381, if not municipalities
NoMunicipalities(found) == found = <<>>

\* main.py:397, municipality.update(election_details)
Update(municipality, election_details) ==
    [k \in DOMAIN municipality \cup DOMAIN election_details |->
        IF k \in DOMAIN election_details THEN election_details[k]
        ELSE municipality[k]]

\* faulty variant: a failed fetch leaves zero-valued detail fields in the record
MergeDetails_ZeroOnFailure(municipality, detail_soup) ==
    IF detail_soup # None
    THEN Update(municipality, scrape_one_place_details(detail_soup))
    ELSE Update(municipality, [registered |-> DEFAULT_VOTES, envelopes |-> DEFAULT_VOTES,
                               valid |-> DEFAULT_VOTES, parties |-> EmptyDict])

\* main.py:393-397, the body of the loop after the fetch
MergeDetails(municipality, detail_soup) ==
    IF detail_soup # None
    THEN LET election_details == scrape_one_place_details(detail_soup)
         IN IF election_details # None
            THEN Update(municipality, election_details)
            ELSE municipality
    ELSE municipality

\* faulty variant: a failed fetch is tried again
NextIndex_Retry(i, detail_soup) == IF detail_soup = None THEN i ELSE i + 1

\* main.py:388, the for loop goes on to the next municipality whatever the
\* fetch returned
NextIndex(i, detail_soup) == i + 1

\* a first row that would pass for a party row if it were not skipped
HeaderRow == << <<"0">>, <<"H">>, <<"9">> >>

\* The pages the model lets the server answer with
MainRowKinds ==
    { ListingRow(LinkElement(<<"ps311?xobec=", "1">>, <<"5", "0", "1">>),
                 TextElement(<<"Alpha">>)),
      ListingRow(LinkElement(<<"ps311?xobec=", "2">>, <<"5", "0", "2">>),
                 TextElement(<<"Bravo">>)),
      ListingRow(Absent, Absent) }

MainListingDocs ==
    { ListingDoc(rows) : rows \in UNION {[1..k -> MainRowKinds] : k \in 0..MaxRows} }

Count(text) == TextElement(text)

PartyTable(rows) == TableContainer(<<HeaderRow>> \o rows)

MainDetailDocs ==
    { \* parties 1 X 100 and 2 Y 50
      DetailDoc(Count(<<"1", NON_BREAKING_SPACE, "0", "0", "0">>), Count(<<"9", "0", "0">>),
                Count(<<"8", "0", "0">>),
                <<PartyTable(<< << <<"1">>, <<"X">>, <<"1", "0", "0">> >>,
                                << <<"2">>, <<"Y">>, <<"5", "0">> >> >>)>>),
      \* party 2 Y 30 only
      DetailDoc(Count(<<"4", "0">>), Count(<<"3", "5">>), Count(<<"3", "3">>),
                <<PartyTable(<< << <<"2">>, <<"Y">>, <<"3", "0">> >> >>)>>),
      \* party 3 under the name of party 1, and a party named like a base column
      DetailDoc(Count(<<"2", "0">>), Count(<<"1", "5">>), Count(<<"1", "2">>),
                <<PartyTable(<< << <<"3">>, <<"X">>, <<"9">> >> >>),
                  PartyTable(<< << <<"4">>, <<"valid">>, <<"6">> >> >>)>>),
      \* a summary row after the parties: no party number, a name, a total
      DetailDoc(Count(<<"7">>), Count(<<"6">>), Count(<<"5">>),
                <<PartyTable(<< << <<"1">>, <<"X">>, <<"5">> >>,
                                << <<>>, <<"Celkem">>, <<"5">> >> >>)>>) }

\* main.py:370-372
FetchListing ==
    /\ pc = "Idle"
    /\ \E response \in {RequestException} \cup {Response(d) : d \in MainListingDocs} :
          /\ main_page_soup' = get_soup_from_url(response)
          /\ out' = out \o <<"Stahuji hlavni stranku">> \o SoupPrinted(response)
    /\ trace' = Append(trace, [op |-> "fetch_listing"])
    /\ pc' = "ListingFetched"
    /\ UNCHANGED <<municipalities, idx, file, pages, fnvars>>

\* main.py:373-375
AbortOnListingFailure ==
    /\ pc = "ListingFetched"
    /\ ListingFetchFailed(main_page_soup)
    /\ out' = Append(out, "Nepodarilo se stahnout hlavni stranku. Ukoncuji program.")
    /\ pc' = "Failed"
    /\ UNCHANGED <<main_page_soup, municipalities, idx, trace, file, pages, fnvars>>

\* main.py:377-379
ParseListing ==
    /\ pc = "ListingFetched"
    /\ ~ListingFetchFailed(main_page_soup)
    /\ municipalities' = scrape_municipalities_list(main_page_soup, BaseUrl)
    /\ out' = out \o <<"Ziskavam seznam obci", "Nalezeno obci ke zpracovani">>
    /\ trace' = Append(trace, [op |-> "parse_listing"])
    /\ pc' = "ListingParsed"
    /\ UNCHANGED <<main_page_soup, idx, file, pages, fnvars>>

\* main.py:381-383
AbortOnNoMunicipalities ==
    /\ pc = "ListingParsed" /\ idx = 0
    /\ NoMunicipalities(municipalities)
    /\ out' = Append(out, "Nebyly nalezeny zadne obce. Ukoncuji program.")
    /\ pc' = "Failed"
    /\ UNCHANGED <<main_page_soup, municipalities, idx, trace, file, pages, fnvars>>

\* main.py:385-388, the loop is entered
StartDetails ==
    /\ pc = "ListingParsed" /\ idx = 0
    /\ ~NoMunicipalities(municipalities)
    /\ out' = Append(out, "Zahajuji stahovani detailu pro vsechny obce")
    /\ idx' = 1
    /\ UNCHANGED <<pc, main_page_soup, municipalities, trace, file, pages, fnvars>>

\* main.py:388-397, one iteration of the loop
ProcessMunicipality ==
    /\ pc = "ListingParsed"
    /\ idx \in 1..Len(municipalities)
    /\ \E response \in {RequestException} \cup {Response(d) : d \in MainDetailDocs} :
          LET detail_soup == get_soup_from_url(response)
          IN /\ municipalities' =
                   [municipalities EXCEPT ![idx] = MergeDetails(@, detail_soup)]
             /\ pages' = Append(pages, detail_soup)
             /\ out' = out \o SoupPrinted(response)
             /\ idx' = NextIndex(idx, detail_soup)
    /\ trace' = Append(trace, [op |-> "fetch_detail", i |-> idx,
                              url |-> municipalities[idx].link])
    /\ UNCHANGED <<pc, main_page_soup, file, fnvars>>

\* main.py:399, the loop is left
FinishDetails ==
    /\ pc = "ListingParsed"
    /\ idx > Len(municipalities)
    /\ out' = Append(out, "Stahovani detailu dokonceno.")
    /\ pc' = "DetailsProcessed"
    /\ UNCHANGED <<main_page_soup, municipalities, idx, trace, file, pages, fnvars>>

\* main.py:402, export_to_csv(municipalities, arguments.filename): it returns,
\* or an exception leaves it and main()
Export ==
    /\ pc = "DetailsProcessed"
    /\ \E can_write \in BOOLEAN :
          LET result == export_to_csv(municipalities, can_write)
          IN /\ out' = out \o result.printed
             /\ file' = result.written
             /\ pc' = IF result.raised = "" THEN "Exported" ELSE "Crashed"
    /\ trace' = Append(trace, [op |-> "export"])
    /\ UNCHANGED <<main_page_soup, municipalities, idx, pages, fnvars>>

\* main.py:403
Finish ==
    /\ pc = "Exported"
    /\ out' = Append(out, "Program uspesne dokoncen.")
    /\ pc' = "Done"
    /\ UNCHANGED <<main_page_soup, municipalities, idx, trace, file, pages, fnvars>>

Init ==
    /\ MainIdle
    /\ arg = None
    /\ ret = None
    /\ fpc = "unused"

Next ==
    \/ FetchListing
    \/ AbortOnListingFailure
    \/ ParseListing
    \/ AbortOnNoMunicipalities
    \/ StartDetails
    \/ ProcessMunicipality
    \/ FinishDetails
    \/ Export
    \/ Finish

Spec == Init /\ [][Next]_vars

\* the stub the listing gives for the municipality at position i
StubAt(i) == scrape_municipalities_list(main_page_soup, BaseUrl)[i]

\* the texts printed so far
Printed == {out[k] : k \in 1..Len(out)}

\* the party numbers of the pages that were fetched
FetchedPartyNumbers ==
    UNION { IF pages[j] = None THEN {}
            ELSE DOMAIN scrape_one_place_details(pages[j]).parties
            : j \in 1..Len(pages) }

\* the names of the party columns of the file
PartyColumnNames ==
    {file.header[k] : k \in (Len(base_columns) + 1)..Len(file.header)}

\* C1 as amended: a failed detail fetch does not abort the run (the run fails
\* only before the first detail fetch, and ends otherwise only in or after
\* export_to_csv); the record of that municipality stays its stub, so its
\* exported row has the default "N/A", not 0, for registered, envelopes and
\* valid (a cell whose column name is also the name of a party column holds the
\* votes written under that name, 0); it contributes no party column; and the
\* record of every other municipality is its stub merged with the detail of
\* its own page, whatever the other fetches returned.
C1_FailedDetailLeavesDefaults ==
    /\ pc = "Failed" => pages = <<>>
    /\ (pc = "Crashed" \/ pc = "Exported" \/ pc = "Done") =>
           /\ Len(pages) = Len(municipalities)
           /\ trace[Len(trace)].op = "export"
    /\ \A i \in 1..Len(pages) :
           IF pages[i] = None
           THEN municipalities[i] = StubAt(i)
           ELSE municipalities[i] =
                    Update(StubAt(i), scrape_one_place_details(pages[i]))
    /\ file # None =>
           /\ Len(file.header) = Len(base_columns) + Cardinality(FetchedPartyNumbers)
           /\ \A i \in 1..Len(pages) :
                 pages[i] = None =>
                     /\ file.rows[i][1] = PyStr(StubAt(i).code)
                     /\ file.rows[i][2] = PyStr(StubAt(i).location)
                     /\ \A c \in 3..5 :
                           file.rows[i][c] =
                               IF base_columns[c] \in PartyColumnNames
                               THEN PyInt(0) ELSE PyStr(DEFAULT_VALUE)
                     /\ \A c \in (Len(base_columns) + 1)..Len(file.header) :
                           file.rows[i][c] = PyInt(0)

\* C1 witness: a finished run over two or more municipalities, one detail
\* fetch failed and another gave parties; the failed one's row holds "N/A"
C1_Witness ==
    /\ pc = "Done" /\ file # None
    /\ \E i, j \in 1..Len(pages) :
          /\ pages[i] = None
          /\ pages[j] # None
          /\ municipalities[j].parties # EmptyDict
          /\ file.rows[i][3] = PyStr(DEFAULT_VALUE)
          /\ file.rows[j][3] = PyInt(municipalities[j].registered)

\* C1 as stated: in a run over several municipalities, the exported row of a
\* municipality whose detail fetch failed has the value 0 for registered,
\* envelopes and valid.
C1_FailedDetailRowHasZeros ==
    (file # None /\ Len(municipalities) >= 2) =>
        \A i \in 1..Len(pages) :
            pages[i] = None =>
                \A c \in 3..5 : file.rows[i][c] = PyInt(0)

\* C2: the final success message is emitted only when none of the three
\* failures occurred: the listing was fetched, municipalities were found and the
\* output file was written.
C2_SuccessOnlyWithoutFailure ==
    "Program uspesne dokoncen." \in Printed =>
        /\ main_page_soup # None
        /\ municipalities # <<>>
        /\ file # None
        /\ "CHYBA: Nepodarilo se zapsat do souboru" \notin Printed

\* C3: when the listing page was fetched and scrape_municipalities_list
\* returned an empty list, the run ends without any detail fetch and without
\* calling export_to_csv, and no file is written.
C3_EmptyListingStopsRun ==
    (pc \notin {"Idle", "ListingFetched"} /\ main_page_soup # None
     /\ municipalities = <<>>) =>
        /\ pc \in {"ListingParsed", "Failed"}
        /\ idx = 0
        /\ pages = <<>>
        /\ file = None
        /\ \A k \in 1..Len(trace) : trace[k].op \notin {"fetch_detail", "export"}
        /\ pc = "Failed" =>
               /\ "Nebyly nalezeny zadne obce. Ukoncuji program." \in Printed
               /\ "Program uspesne dokoncen." \notin Printed

\* C3 witness: the run has ended on a listing page that has rows, all malformed
C3_Witness ==
    /\ pc = "Failed"
    /\ main_page_soup # None
    /\ Len(main_page_soup.rows) >= 2
    /\ municipalities = <<>>

\* the steps of a whole run over a list of municipalities
FullTrace(found) ==
    <<[op |-> "fetch_listing"], [op |-> "parse_listing"]>>
    \o [i \in 1..Len(found) |-> [op |-> "fetch_detail", i |-> i, url |-> found[i].link]]
    \o <<[op |-> "export"]>>

IsPrefix(a, b) == Len(a) <= Len(b) /\ a = SubSeq(b, 1, Len(a))

\* C4: the listing is fetched and parsed before any detail page is requested;
\* the detail pages are requested one at a time in the order of the listing,
\* each municipality's link exactly once, also after a failure; export_to_csv
\* is called at most once and only after the last detail fetch.
C4_SequentialOrder ==
    /\ IsPrefix(trace, FullTrace(municipalities))
    /\ Len(pages) = Cardinality({k \in 1..Len(trace) : trace[k].op = "fetch_detail"})
    /\ (pc \in {"DetailsProcessed", "Exported", "Done", "Crashed"}) =>
           Len(pages) = Len(municipalities)

\* C4 witness: a finished run over three municipalities whose second detail
\* fetch failed
C4_Witness ==
    /\ pc = "Done"
    /\ Len(municipalities) = 3
    /\ pages[1] # None /\ pages[2] = None /\ pages[3] # None
    /\ Len(trace) = 6

\* C5: a run ends either in Done or in Failed, Failed being entered only on a
\* listing fetch failure or on an empty listing; no uncaught error ends it.
C5_RunEndsDoneOrFailed ==
    /\ pc \in {"Idle", "ListingFetched", "ListingParsed", "DetailsProcessed",
               "Exported", "Done", "Failed"}
    /\ pc = "Failed" => (main_page_soup = None \/ municipalities = <<>>)

-----------------------------------------------------------------------------
(* Specification SpecClean: clean_number applied to every text of at most  *)
(* MaxLen chunks over CleanAlphabet, and to an absent input                *)

CleanAlphabet == {"0", "7", "-", "a", REGULAR_SPACE, NON_BREAKING_SPACE}

CleanInputs == TextsUpTo(CleanAlphabet, MaxLen) \cup {NoneText}

InitClean ==
    /\ MainIdle
    /\ arg \in CleanInputs
    /\ ret = None
    /\ fpc = "ready"

CallCleanNumber ==
    /\ fpc = "ready"
    /\ ret' = clean_number(arg)
    /\ fpc' = "returned"
    /\ UNCHANGED <<arg, mainvars>>

NextClean == CallCleanNumber

SpecClean == InitClean /\ [][NextClean]_vars

\* C8: clean_number returns a non-negative integer for every text and for an
\* absent input, and 0 when the input is empty, absent or does not parse as an
\* integer once the spaces are removed.
C8_CleanNumberNonNegative ==
    fpc = "returned" =>
        /\ ret \in Int
        /\ ret >= 0
        /\ (arg = NoneText \/ arg = <<>>
            \/ ~IntParses(Replace(Replace(arg, NON_BREAKING_SPACE), REGULAR_SPACE)))
           => ret = 0

\* C8 as amended: clean_number returns an integer for every text and for an
\* absent input; 0 when the input is empty, absent or does not parse as an
\* integer once the spaces are removed, else the integer the remaining chunks
\* spell; the result is negative only for a text with a minus sign.
C8_CleanNumberTotal ==
    fpc = "returned" =>
        LET spaceless == IF arg = NoneText THEN <<>>
                         ELSE SelectSeq(arg, LAMBDA c : ~IsSpace(c))
        IN /\ ret \in Int
           /\ (arg = NoneText \/ arg = <<>> \/ ~IntParses(spaceless)) => ret = 0
           /\ (spaceless # <<>> /\ AllDigits(spaceless)) => ret = DigitsValue(spaceless)
           /\ (Len(spaceless) >= 2 /\ Head(spaceless) = "-" /\ AllDigits(Tail(spaceless)))
                  => ret = 0 - DigitsValue(Tail(spaceless))
           /\ ret < 0 => (Head(spaceless) = "-")

\* C8 witness: a minus sign and a digit with a non-breaking space between
\* them, which gives a negative number
C8_Witness ==
    /\ fpc = "returned"
    /\ arg = <<"-", NON_BREAKING_SPACE, "7">>
    /\ ret = -7

-----------------------------------------------------------------------------
(* Specification SpecListing: scrape_municipalities_list applied to every  *)
(* listing table of at most MaxRows rows over ListingRowKinds              *)

RelativeHref == <<"ps311?xobec=", "1">>
AbsoluteHref == <<"https://other.example/", "ps311?xobec=2">>

ListingLinkKinds ==
    { Absent,
      LinkElement(NoneText, <<"1">>),
      LinkElement(<<>>, <<"1">>),
      LinkElement(RelativeHref, <<REGULAR_SPACE>>),
      LinkElement(RelativeHref, <<"1">>),
      LinkElement(AbsoluteHref, <<REGULAR_SPACE, "2">>) }

ListingNameKinds ==
    { Absent, TextElement(<<NON_BREAKING_SPACE>>), TextElement(<<"Alpha", REGULAR_SPACE>>) }

ListingRowKinds ==
    { ListingRow(l, n) : l \in ListingLinkKinds, n \in ListingNameKinds }

ListingDocs ==
    { ListingDoc(rows) : rows \in UNION {[1..k -> ListingRowKinds] : k \in 0..MaxRows} }

InitListing ==
    /\ MainIdle
    /\ arg \in ListingDocs
    /\ ret = None
    /\ fpc = "ready"

CallScrapeMunicipalitiesList ==
    /\ fpc = "ready"
    /\ ret' = scrape_municipalities_list(arg, BaseUrl)
    /\ fpc' = "returned"
    /\ UNCHANGED <<arg, mainvars>>

NextListing == CallScrapeMunicipalitiesList

SpecListing == InitListing /\ [][NextListing]_vars

\* a row of the claim's N: it has the code/link element and the name element,
\* and its href, code and name are non-empty
RowHasAllFields(row) ==
    /\ row.link.present /\ row.name.present
    /\ row.link.href # NoneText /\ row.link.href # <<>>
    /\ Strip(row.link.text) # <<>>
    /\ Strip(row.name.text) # <<>>

\* the positions of those rows, in document order
ValidPositions(doc) ==
    SelectSeq([k \in 1..Len(doc) |-> k], LAMBDA k : RowHasAllFields(doc[k]))

\* C10: a listing with N rows that have a non-empty href, code and name and M
\* rows that lack one of them yields exactly N stubs, one per valid row, in the
\* order of the valid rows in the document.
C10_ListingYieldsValidRowsInOrder ==
    fpc = "returned" =>
        LET pos == ValidPositions(arg.rows)
        IN /\ Len(ret) = Len(pos)
           /\ \A j \in 1..Len(pos) :
                 /\ ret[j].code = Strip(arg.rows[pos[j]].link.text)
                 /\ ret[j].location = Strip(arg.rows[pos[j]].name.text)
                 /\ ret[j].link = urljoin(BaseUrl, arg.rows[pos[j]].link.href)

\* C10 witness: a returned listing with valid rows before and after a row that
\* is skipped
C10_Witness ==
    /\ fpc = "returned"
    /\ Len(arg.rows) = 3
    /\ RowHasAllFields(arg.rows[1]) /\ ~RowHasAllFields(arg.rows[2])
    /\ RowHasAllFields(arg.rows[3])
    /\ arg.rows[1] # arg.rows[3]
    /\ Len(ret) = 2

-----------------------------------------------------------------------------
(* Specification SpecDetail: scrape_one_place_details applied to every     *)
(* detail page of at most MaxContainers containers, each without a table   *)
(* or with a table of a header row, at most MaxPartyRows data rows and    *)
(* the closing rows                                                        *)

PartyRowKinds ==
    { << <<"1">>, <<REGULAR_SPACE, "X">>, <<"7">> >>,
      << <<"1">>, <<"-", NON_BREAKING_SPACE>>, <<"3">> >>,
      << <<"4">>, <<REGULAR_SPACE>>, <<"5">> >> }

\* the rows that close every table: a party row of four cells, and a row of
\* two cells only, which is no party row
ClosingRows ==
    << << <<"2">>, <<"Y">>, <<"1", NON_BREAKING_SPACE, "0">>, <<"0", "7">> >>,
       << <<"3">>, <<"Z">> >> >>

PartyTables ==
    { TableContainer(<<HeaderRow>> \o rows \o ClosingRows) :
          rows \in UNION {[1..k -> PartyRowKinds] : k \in 0..MaxPartyRows} }

ContainerKinds == PartyTables \cup {NoTable, TableContainer(<<>>)}

DetailDocs ==
    { DetailDoc(TextElement(<<"1", NON_BREAKING_SPACE, "0">>), Absent,
                TextElement(<<"a">>), containers) :
          containers \in UNION {[1..k -> ContainerKinds] : k \in 0..MaxContainers} }

InitDetail ==
    /\ MainIdle
    /\ arg \in DetailDocs
    /\ ret = None
    /\ fpc = "ready"

CallScrapeOnePlaceDetails ==
    /\ fpc = "ready"
    /\ ret' = scrape_one_place_details(arg)
    /\ fpc' = "returned"
    /\ UNCHANGED <<arg, mainvars>>

NextDetail == CallScrapeOnePlaceDetails

SpecDetail == InitDetail /\ [][NextDetail]_vars

\* the party rows of a page in document order: the rows after the first of
\* every table that have at least three cells
RECURSIVE PartyRowsOf(_)
PartyRowsOf(containers) ==
    IF containers = <<>> THEN <<>>
    ELSE (IF Head(containers).has_table
          THEN SelectSeq(SubSeq(Head(containers).rows, 2, Len(Head(containers).rows)),
                         LAMBDA cells : Len(cells) >= 3)
          ELSE <<>>)
         \o PartyRowsOf(Tail(containers))

NameOfRow(cells) == Strip(cells[2])

KeptName(cells) == NameOfRow(cells) # <<>> /\ NameOfRow(cells) # <<"-">>

\* C9: a party row whose name is non-empty and not "-" is never discarded: its
\* party number is a key of the returned parties mapping, whose entry is that
\* of the last such row with the number; a party row whose name is empty or "-"
\* is always discarded: no entry has an empty name or the name "-", and every
\* entry comes from a row with a kept name.
C9_PartyKeptIffNameValid ==
    fpc = "returned" =>
        LET rows == PartyRowsOf(arg.containers)
            parties == ret.parties
        IN /\ \A k \in 1..Len(rows) :
                 KeptName(rows[k]) =>
                     /\ Strip(rows[k][1]) \in DOMAIN parties
                     /\ (\A j \in (k + 1)..Len(rows) :
                             ~(KeptName(rows[j]) /\ Strip(rows[j][1]) = Strip(rows[k][1])))
                        => /\ parties[Strip(rows[k][1])].nazev = NameOfRow(rows[k])
                           /\ parties[Strip(rows[k][1])].hlasy = clean_number(Strip(rows[k][3]))
           /\ \A pn \in DOMAIN parties :
                 /\ parties[pn].nazev # <<>>
                 /\ parties[pn].nazev # <<"-">>
                 /\ \E k \in 1..Len(rows) :
                        KeptName(rows[k]) /\ Strip(rows[k][1]) = pn

\* C9 witness: a page with a kept row, a row named "-" of the same party number
\* after it and a row with a blank name; only the kept rows are in the mapping
C9_Witness ==
    /\ fpc = "returned"
    /\ \E c \in 1..Len(arg.containers) :
           /\ arg.containers[c].has_table
           /\ Len(arg.containers[c].rows) = 5
           /\ arg.containers[c].rows[2] = << <<"1">>, <<REGULAR_SPACE, "X">>, <<"7">> >>
           /\ arg.containers[c].rows[3] = << <<"1">>, <<"-", NON_BREAKING_SPACE>>, <<"3">> >>
    /\ \E c \in 1..Len(arg.containers) :
           /\ arg.containers[c].has_table
           /\ Len(arg.containers[c].rows) >= 2
           /\ arg.containers[c].rows[2] = << <<"4">>, <<REGULAR_SPACE>>, <<"5">> >>
    /\ DOMAIN ret.parties = {<<"1">>, <<"2">>}
    /\ ret.parties[<<"1">>] = [nazev |-> <<"X">>, hlasy |-> 7]
    /\ ret.parties[<<"2">>] = [nazev |-> <<"Y">>, hlasy |-> 10]

-----------------------------------------------------------------------------
(* Specification SpecExport: export_to_csv applied to every sequence of at *)
(* most MaxRecords records over RecordKinds, the file being writable       *)

ExportPartyNumbers == {<<"2">>, <<"0", "2">>, <<"1", "0">>}

ExportPartyInfos ==
    { [nazev |-> <<"X">>, hlasy |-> 5], [nazev |-> <<"Y">>, hlasy |-> 7] }

ExportPartyDicts ==
    UNION { [numbers -> ExportPartyInfos] : numbers \in SUBSET ExportPartyNumbers }

ExportStub == [code |-> <<"5", "0", "1">>, location |-> <<"Alpha">>,
               link |-> <<"https://volby.cz/pls/ps2017nss/", "ps311?xobec=", "1">>]

\* a stub whose detail fetch failed, or a stub merged with its detail
RecordKinds ==
    {ExportStub} \cup
    { [code |-> ExportStub.code, location |-> ExportStub.location,
       link |-> ExportStub.link, registered |-> 10, envelopes |-> 8,
       valid |-> 7, parties |-> parties] : parties \in ExportPartyDicts }

InitExport ==
    /\ MainIdle
    /\ arg \in UNION {[1..k -> RecordKinds] : k \in 0..MaxRecords}
    /\ ret = None
    /\ fpc = "ready"

CallExportToCsv ==
    /\ fpc = "ready"
    /\ ret' = export_to_csv(arg, TRUE)
    /\ fpc' = "returned"
    /\ UNCHANGED <<arg, mainvars>>

NextExport == CallExportToCsv

SpecExport == InitExport /\ [][NextExport]_vars

\* the union of the party numbers of all records
AllPartyNumbers(records) ==
    UNION { IF "parties" \in DOMAIN records[r] THEN DOMAIN records[r].parties ELSE {}
            : r \in 1..Len(records) }

\* C6: the party columns of the output are in one-to-one correspondence with
\* the union of the party ids of all records (every id has a column, no id
\* has two, no column is for an id outside the union), and every row holds, in
\* every party column, the municipality's vote count for that party id when it
\* has one and 0 otherwise.
C6_SchemaComplete ==
    (fpc = "returned" /\ ret.raised = "") =>
        LET numbers == ret.party_numbers
            table == ret.written
        IN /\ Len(table.header) = Len(base_columns) + Len(numbers)
           /\ {numbers[k] : k \in 1..Len(numbers)} = AllPartyNumbers(arg)
           /\ \A j, k \in 1..Len(numbers) : numbers[j] = numbers[k] => j = k
           /\ Len(table.rows) = Len(arg)
           /\ \A r \in 1..Len(arg) : \A k \in 1..Len(numbers) :
                 table.rows[r][Len(base_columns) + k] =
                     PyInt(IF "parties" \in DOMAIN arg[r]
                              /\ numbers[k] \in DOMAIN arg[r].parties
                           THEN arg[r].parties[numbers[k]].hlasy
                           ELSE 0)

\* C7: the integer value of the party id is strictly increasing from each
\* party column of the output to the next.
C7_StrictlyIncreasingPartyIds ==
    (fpc = "returned" /\ ret.raised = "") =>
        \A k \in 1..(Len(ret.party_numbers) - 1) :
            IntOf(ret.party_numbers[k]) < IntOf(ret.party_numbers[k + 1])

\* C7 as amended: the integer value of the party id never decreases from a
\* party column to the next; two neighbours have the same integer value only
\* when their ids are different texts ("02" and "2"), the smaller text first.
C7_NonDecreasingPartyIds ==
    (fpc = "returned" /\ ret.raised = "") =>
        \A k \in 1..(Len(ret.party_numbers) - 1) :
            LET a == ret.party_numbers[k]
                b == ret.party_numbers[k + 1]
            IN \/ IntOf(a) < IntOf(b)
               \/ IntOf(a) = IntOf(b) /\ a # b /\ TextLess(a, b)

\* C7 witness: the ids "02", "2" and "10" in two records, in this order in the output
C7_Witness ==
    /\ fpc = "returned"
    /\ Len(arg) = 2
    /\ "parties" \in DOMAIN arg[1] /\ "parties" \in DOMAIN arg[2]
    /\ DOMAIN arg[1].parties = {<<"1", "0">>, <<"2">>}
    /\ DOMAIN arg[2].parties = {<<"0", "2">>}
    /\ ret.party_numbers = << <<"0", "2">>, <<"2">>, <<"1", "0">> >>

====
